---- MODULE Spec2Model ----
(***************************************************************************)
(* A model of astrewrite.Walk (src/astrewrite.go): the in-place, visitor   *)
(* driven rewrite of a go/ast tree.                                        *)
(*                                                                         *)
(* Nodes are heap objects.  A node identity is the path of the node in the *)
(* input tree: the root is <<0>>, the j-th entry of the i-th child field   *)
(* of node p is p \o <<i, j>>.  Every input node p has two spare nodes the *)
(* visitor may return in its place: p \o <<0, 1>>, a fresh node of the     *)
(* same dynamic type, and p \o <<0, 2>>, a fresh node of another family;   *)
(* a spare node has no children (its fields are nil, its lists empty), and *)
(* the heap need not store it.                                             *)
(* p \o <<0, 3>> is the nil pointer of the dynamic type of p.              *)
(* A child field holds a sequence of node identities: a single field holds *)
(* <<>> (nil) or <<id>>, a slice field holds its elements in order.        *)
(***************************************************************************)
EXTENDS Integers, Sequences, FiniteSets, TLC

\* the visitor deviates from "return the node unchanged, descend" at no
\* more than MaxEdits nodes of the input tree
MaxEdits == 2

VARIABLES sc, fn, order, pc, h, calls, rets, panic, ret

vars == <<sc, fn, order, pc, h, calls, rets, panic, ret>>

----------------------------------------------------------------------------
\* Values of type ast.Node

\* the nil interface value (what a bare "return" of Walk yields, and what a
\* visitor returns to remove a node)
NilIface == <<-1>>

\* a nil pointer of the static type of the field it was loaded from, boxed
\* in an ast.Node
NilPtr == <<-2>>

\* a nil pointer of a known dynamic type, boxed in an ast.Node: the third
\* spare of an input node
IsTypedNil(v) == Len(v) >= 3 /\ v[Len(v) - 1] = 0 /\ v[Len(v)] = 3

isNil(v) == v = NilIface \/ v = NilPtr \/ IsTypedNil(v)

\* dynamic types implementing ast.Expr (the cases of Walk's switch under
\* "Expressions" and "Types"); IndexListExpr is an expression of go/ast that
\* the switch does not list
ExprKinds ==
    {"BadExpr", "Ident", "Ellipsis", "BasicLit", "FuncLit", "CompositeLit",
     "ParenExpr", "SelectorExpr", "IndexExpr", "SliceExpr", "TypeAssertExpr",
     "CallExpr", "StarExpr", "UnaryExpr", "BinaryExpr", "KeyValueExpr",
     "ArrayType", "StructType", "FuncType", "InterfaceType", "MapType",
     "ChanType", "IndexListExpr"}

\* dynamic types implementing ast.Stmt
StmtKinds ==
    {"BadStmt", "DeclStmt", "EmptyStmt", "LabeledStmt", "ExprStmt",
     "SendStmt", "IncDecStmt", "AssignStmt", "GoStmt", "DeferStmt",
     "ReturnStmt", "BranchStmt", "BlockStmt", "IfStmt", "CaseClause",
     "SwitchStmt", "TypeSwitchStmt", "CommClause", "SelectStmt", "ForStmt",
     "RangeStmt"}

\* dynamic types implementing ast.Spec
SpecKinds == {"ImportSpec", "ValueSpec", "TypeSpec"}

\* dynamic types implementing ast.Decl
DeclKinds == {"BadDecl", "GenDecl", "FuncDecl"}

\* the static types that are interfaces; every other static type T is the
\* pointer type *ast.T
IsInterface(T) == T \in {"Expr", "Stmt", "Spec", "Decl"}

\* whether a node of dynamic type kind has the type T of an assertion x.(T)
Implements(kind, T) ==
    CASE T = "Expr" -> kind \in ExprKinds
      [] T = "Stmt" -> kind \in StmtKinds
      [] T = "Spec" -> kind \in SpecKinds
      [] T = "Decl" -> kind \in DeclKinds
      [] OTHER -> kind = T

----------------------------------------------------------------------------
\* The child fields of each node type, in the order Walk's switch handles
\* them, each with the statement form Walk uses for it:
\*   Must          n.X = Walk(n.X, fn).(T)
\*   MustIf        if n.X != nil { n.X = Walk(n.X, fn).(T) }
\*   OkElseReturn  if v, ok := Walk(n.X, fn).(T); ok { n.X = v } else { return }
\*   NilReturn     if n.X, _ = Walk(n.X, fn).(T); n.X == nil { return }
\*   Clear         n.X, _ = Walk(n.X, fn).(T)
\*   ClearIf       if n.X != nil { n.X, _ = Walk(n.X, fn).(T) }
\*   OkKeep        if v, ok := Walk(n.X, fn).(T); ok { n.X = v }
\*   Discard       Walk(n.X, fn)
\*   List          n.L = walkTList(n.L, fn)
\*   ListNilReturn if n.L = walkTList(n.L, fn); len(n.L) == 0 { return }
\*   Fields        the loop of the FieldList case
\*   Comments      the loop of the CommentGroup case
\*   Files         the loop of the Package case
\*   Skip          a child ast.Inspect reaches and Walk never walks
S(f, mode, T) == [f |-> f, mode |-> mode, T |-> T]

Slots(kind) ==
    CASE kind = "CommentGroup" -> << S("List", "Comments", "Comment") >>
      [] kind = "Field" ->
            << S("Names", "List", "Ident"), S("Type", "OkElseReturn", "Expr"),
               S("Tag", "ClearIf", "BasicLit"),
               S("Doc", "ClearIf", "CommentGroup"),
               S("Comment", "ClearIf", "CommentGroup") >>
      [] kind = "FieldList" -> << S("List", "Fields", "Field") >>
      [] kind = "Ellipsis" -> << S("Elt", "OkElseReturn", "Expr") >>
      [] kind = "FuncLit" ->
            << S("Type", "OkElseReturn", "FuncType"),
               S("Body", "Must", "BlockStmt") >>
      [] kind = "CompositeLit" ->
            << S("Type", "ClearIf", "Expr"), S("Elts", "List", "Expr") >>
      [] kind = "ParenExpr" -> << S("X", "Must", "Expr") >>
      [] kind = "SelectorExpr" ->
            << S("X", "Must", "Expr"), S("Sel", "Must", "Ident") >>
      [] kind = "IndexExpr" ->
            << S("X", "Must", "Expr"), S("Index", "Must", "Expr") >>
      [] kind = "SliceExpr" ->
            << S("X", "Must", "Expr"), S("Low", "MustIf", "Expr"),
               S("High", "MustIf", "Expr"), S("Max", "MustIf", "Expr") >>
      [] kind = "TypeAssertExpr" ->
            << S("X", "Must", "Expr"), S("Type", "MustIf", "Expr") >>
      [] kind = "CallExpr" ->
            << S("Fun", "NilReturn", "Expr"), S("Args", "List", "Expr") >>
      [] kind = "StarExpr" -> << S("X", "Must", "Expr") >>
      [] kind = "UnaryExpr" -> << S("X", "Must", "Expr") >>
      [] kind = "BinaryExpr" ->
            << S("X", "Must", "Expr"), S("Y", "Must", "Expr") >>
      [] kind = "KeyValueExpr" ->
            << S("Key", "Must", "Expr"), S("Value", "Must", "Expr") >>
      [] kind = "ArrayType" ->
            << S("Len", "OkKeep", "Expr"), S("Elt", "OkElseReturn", "Expr") >>
      [] kind = "StructType" -> << S("Fields", "NilReturn", "FieldList") >>
      [] kind = "FuncType" ->
            << S("Params", "ClearIf", "FieldList"),
               S("Results", "ClearIf", "FieldList") >>
      [] kind = "InterfaceType" -> << S("Methods", "Clear", "FieldList") >>
      [] kind = "MapType" ->
            << S("Key", "NilReturn", "Expr"), S("Value", "NilReturn", "Expr") >>
      [] kind = "ChanType" -> << S("Value", "NilReturn", "Expr") >>
      [] kind = "DeclStmt" -> << S("Decl", "NilReturn", "Decl") >>
      [] kind = "LabeledStmt" ->
            << S("Label", "Must", "Ident"), S("Stmt", "Must", "Stmt") >>
      [] kind = "ExprStmt" -> << S("X", "NilReturn", "Expr") >>
      [] kind = "SendStmt" ->
            << S("Chan", "Must", "Expr"), S("Value", "Must", "Expr") >>
      [] kind = "IncDecStmt" -> << S("X", "Must", "Expr") >>
      [] kind = "AssignStmt" ->
            << S("Lhs", "List", "Expr"), S("Rhs", "List", "Expr") >>
      [] kind = "GoStmt" -> << S("Call", "Must", "CallExpr") >>
      [] kind = "DeferStmt" -> << S("Call", "Must", "CallExpr") >>
      [] kind = "ReturnStmt" -> << S("Results", "List", "Expr") >>
      [] kind = "BranchStmt" -> << S("Label", "MustIf", "Ident") >>
      [] kind = "BlockStmt" -> << S("List", "List", "Stmt") >>
      [] kind = "IfStmt" ->
            << S("Init", "MustIf", "Stmt"), S("Cond", "Must", "Expr"),
               S("Body", "Must", "BlockStmt"), S("Else", "MustIf", "Stmt") >>
      [] kind = "CaseClause" ->
            << S("List", "List", "Expr"), S("Body", "List", "Stmt") >>
      [] kind = "SwitchStmt" ->
            << S("Init", "MustIf", "Stmt"), S("Tag", "MustIf", "Expr"),
               S("Body", "Must", "BlockStmt") >>
      [] kind = "TypeSwitchStmt" ->
            << S("Init", "MustIf", "Stmt"), S("Assign", "Must", "Stmt"),
               S("Body", "Must", "BlockStmt") >>
      [] kind = "CommClause" ->
            << S("Comm", "ClearIf", "Stmt"), S("Body", "List", "Stmt") >>
      [] kind = "SelectStmt" -> << S("Body", "Must", "BlockStmt") >>
      [] kind = "ForStmt" ->
            << S("Init", "MustIf", "Stmt"), S("Cond", "MustIf", "Expr"),
               S("Post", "MustIf", "Stmt"), S("Body", "Must", "BlockStmt") >>
      [] kind = "RangeStmt" ->
            << S("Key", "MustIf", "Expr"), S("Value", "MustIf", "Expr"),
               S("X", "Must", "Expr"), S("Body", "Must", "BlockStmt") >>
      [] kind = "ImportSpec" ->
            << S("Doc", "MustIf", "CommentGroup"), S("Name", "MustIf", "Ident"),
               S("Path", "Must", "BasicLit"),
               S("Comment", "MustIf", "CommentGroup") >>
      [] kind = "ValueSpec" ->
            << S("Doc", "MustIf", "CommentGroup"), S("Names", "List", "Ident"),
               S("Type", "MustIf", "Expr"), S("Values", "List", "Expr"),
               S("Comment", "MustIf", "CommentGroup") >>
      [] kind = "TypeSpec" ->
            << S("Name", "Discard", "Ident"), S("Type", "Discard", "Expr"),
               S("Comment", "MustIf", "CommentGroup"),
               S("Doc", "Skip", "CommentGroup") >>
      [] kind = "GenDecl" ->
            << S("Specs", "ListNilReturn", "Spec"),
               S("Doc", "MustIf", "CommentGroup") >>
      [] kind = "FuncDecl" ->
            << S("Doc", "Clear", "CommentGroup"),
               S("Recv", "OkElseReturn", "FieldList"),
               S("Name", "Must", "Ident"), S("Type", "Must", "FuncType"),
               S("Body", "MustIf", "BlockStmt") >>
      [] kind = "File" ->
            << S("Doc", "MustIf", "CommentGroup"), S("Name", "Must", "Ident"),
               S("Decls", "List", "Decl") >>
      [] kind = "Package" -> << S("Files", "Files", "File") >>
      [] OTHER -> << >>

\* the node types Walk's switch has a case for
KnownKinds ==
    ((ExprKinds \cup StmtKinds \cup SpecKinds \cup DeclKinds) \ {"IndexListExpr"})
        \cup {"Comment", "CommentGroup", "Field", "FieldList", "File", "Package"}

----------------------------------------------------------------------------
\* The walk.  st is the state a call reads and writes: the heap st.h, the
\* calls of fn made so far st.calls (n the argument, NilIface for fn(nil);
\* of the node whose Walk made the call), the calls of Walk that returned
\* st.rets (ret the value returned, kids the node's child fields at that
\* moment), st.panic, "none" until a panic unwinds the walk, and st.order,
\* the order in which a range over the files of the package yields them.

\* the spare nodes of the input node n
Same(n) == n \o <<0, 1>>

Other(n) == n \o <<0, 2>>

TypedNil(n) == n \o <<0, 3>>

IsSpare(id) == Len(id) >= 3 /\ id[Len(id) - 1] = 0

\* a dynamic type no field that holds a node of type kind accepts
OtherKind(kind) == IF kind \in StmtKinds THEN "Ident" ELSE "EmptyStmt"

\* the dynamic type of the node v
KindOf(hp, v) ==
    IF ~IsSpare(v) THEN hp[v].kind
    ELSE LET orig == hp[SubSeq(v, 1, Len(v) - 2)].kind
         IN  IF v[Len(v)] \in {1, 3} THEN orig ELSE OtherKind(orig)

\* the child fields of the node v; those of a spare node are all nil or
\* empty
FieldsOf(hp, v) ==
    IF IsSpare(v) THEN [i \in 1..Len(Slots(KindOf(hp, v))) |-> << >>]
    ELSE hp[v].kids

\* the value of the single child field i of n, of static type T
Load(hp, n, i, T) ==
    IF FieldsOf(hp, n)[i] = << >>
    THEN (IF IsInterface(T) THEN NilIface ELSE NilPtr)
    ELSE FieldsOf(hp, n)[i][1]

\* what a single child field of static type T holds after v, which has type
\* T, is assigned: a nil pointer in a pointer field is the nil field, a nil
\* pointer in an interface field is a non-nil interface value
Box(v, T) ==
    IF v = NilIface \/ (isNil(v) /\ ~IsInterface(T)) THEN << >> ELSE << v >>

\* ok of "x, ok := v.(T)"; a NilPtr is a nil pointer of the type of the field
\* it was loaded from, which is the T every assertion on that field names
TypeAssert(hp, v, T) ==
    IF v = NilIface THEN FALSE
    ELSE IF v = NilPtr THEN ~IsInterface(T)
    ELSE Implements(KindOf(hp, v), T)

\* the node types whose case in ast.Walk reads no field of the node
NoFieldKinds ==
    {"Comment", "BadExpr", "Ident", "BasicLit", "BadStmt", "EmptyStmt", "BadDecl"}

\* the single pointer fields ast.Walk walks without testing them for nil
Unguarded ==
    {<<"FuncLit", "Type">>, <<"FuncLit", "Body">>, <<"SelectorExpr", "Sel">>,
     <<"StructType", "Fields">>, <<"InterfaceType", "Methods">>,
     <<"LabeledStmt", "Label">>, <<"GoStmt", "Call">>, <<"DeferStmt", "Call">>,
     <<"IfStmt", "Body">>, <<"SwitchStmt", "Body">>,
     <<"TypeSwitchStmt", "Body">>, <<"SelectStmt", "Body">>,
     <<"ForStmt", "Body">>, <<"RangeStmt", "Body">>, <<"ImportSpec", "Path">>,
     <<"TypeSpec", "Name">>, <<"FuncDecl", "Name">>, <<"FuncDecl", "Type">>,
     <<"File", "Name">>}

\* the order in which ast.Walk takes the child fields of a node, as indices
\* into Slots(kind): it walks the Doc group first
InspectOrder(kind) ==
    CASE kind = "Field" -> <<4, 1, 2, 3, 5>>
      [] kind = "GenDecl" -> <<2, 1>>
      [] kind = "TypeSpec" -> <<4, 1, 2, 3>>
      [] OTHER -> [k \in 1..Len(Slots(kind)) |-> k]

RECURSIVE inspect(_, _, _)
RECURSIVE inspectList(_, _, _, _)
RECURSIVE inspectFields(_, _, _)

\* ast.Walk(inspector, v) under the function nukeComments passes to
\* ast.Inspect, v being loaded from a field or list of static type T: the
\* function stops at nil and clears a comment group; ast.Walk's switch reads
\* the fields of every other node, a nil pointer included
inspect(st, v, T) ==
    IF st.panic # "none" \/ v = NilIface THEN st
    ELSE IF isNil(v)
    THEN IF (IF v = NilPtr THEN T ELSE KindOf(st.h, v)) \in NoFieldKinds
         THEN st
         ELSE [st EXCEPT !.panic = "nil pointer dereference"]
    ELSE IF KindOf(st.h, v) = "CommentGroup"
    THEN IF IsSpare(v) THEN st
         ELSE [st EXCEPT !.h[v].kids = [i \in DOMAIN @ |-> << >>]]
    ELSE inspectFields(st, v, 1)

\* ast.Walk over the elements list[k], list[k + 1], ...
inspectList(st, list, k, T) ==
    IF k > Len(list) THEN st
    ELSE inspectList(inspect(st, list[k], T), list, k + 1, T)

\* ast.Walk's statement for the child field i of n
inspectField(st, n, i, d) ==
    IF d.mode \in {"List", "ListNilReturn", "Fields", "Comments", "Files"}
    THEN inspectList(st, FieldsOf(st.h, n)[i], 1, d.T)
    ELSE IF Load(st.h, n, i, d.T) = NilPtr
              /\ <<KindOf(st.h, n), d.f>> \notin Unguarded
    THEN st
    ELSE inspect(st, Load(st.h, n, i, d.T), d.T)

\* ast.Walk's case for n, from the k-th field it takes on
inspectFields(st, n, k) ==
    IF k > Len(InspectOrder(KindOf(st.h, n))) THEN st
    ELSE inspectFields(
            inspectField(st, n, InspectOrder(KindOf(st.h, n))[k],
                         Slots(KindOf(st.h, n))[InspectOrder(KindOf(st.h, n))[k]]),
            n, k + 1)

nukeComments(st, root) == inspect(st, root, "Node")

\* whether Walk goes on to the children, given what fn(node) returned
DescendsUnlessRemoved(rewritten, ok) == ok /\ rewritten # NilIface

Descends(rewritten, ok) == ok

\* a return of Walk(node, fn) with value v
Return(st, node, v) ==
    [st  |-> [st EXCEPT !.rets = (node :> [ret |-> v, kids |-> st.h[node].kids]) @@ @],
     ret |-> v]

Panic(st, what) == [st |-> [st EXCEPT !.panic = what], ret |-> NilIface]

\* the FieldList case leaves the switch at once when the list is empty
FieldListBreaksNever(list) == FALSE

FieldListBreaks(list) == Len(list) = 0

RECURSIVE Walk(_, _, _)
RECURSIVE WalkFields(_, _, _, _)
RECURSIVE filterList(_, _, _, _, _, _, _, _)
RECURSIVE walkFiles(_, _, _, _, _)

\* the body of the loop of filterList for the element x, r being the result
\* of Walk(x, fn): the result is appended in place when it has type T (and,
\* in the CommentGroup loop, is not a nil pointer); else nukeComments(x),
\* except in the CommentGroup loop
filterElem(r, x, n, i, k, m, T, comments, f) ==
    IF r.st.panic # "none" THEN [st |-> r.st, out |-> m]
    ELSE IF TypeAssert(r.st.h, r.ret, T) /\ (comments => ~isNil(r.ret))
    THEN filterList([r.st EXCEPT !.h[n].kids[i][m + 1] = r.ret],
                    n, i, k + 1, m + 1, T, comments, f)
    ELSE filterList(IF comments THEN r.st ELSE nukeComments(r.st, x),
                    n, i, k + 1, m, T, comments, f)

\* the loop shared by walkIdentList .. walkSpecList and the FieldList and
\* CommentGroup cases, on the list in the child field i of n: out = list[:0];
\* for each x in list, out = append(out, ...) writes into the array of list.
\* k is the position of the range, m is len(out).  Returns the state and
\* len(out).
filterList(st, n, i, k, m, T, comments, f) ==
    IF k > Len(st.h[n].kids[i]) \/ st.panic # "none" THEN [st |-> st, out |-> m]
    ELSE filterElem(Walk(st, st.h[n].kids[i][k], f), st.h[n].kids[i][k],
                    n, i, k, m, T, comments, f)

walkIdentList(st, n, i, f) == filterList(st, n, i, 1, 0, "Ident", FALSE, f)

walkExprList(st, n, i, f) == filterList(st, n, i, 1, 0, "Expr", FALSE, f)

walkStmtList(st, n, i, f) == filterList(st, n, i, 1, 0, "Stmt", FALSE, f)

walkDeclList(st, n, i, f) == filterList(st, n, i, 1, 0, "Decl", FALSE, f)

walkSpecList(st, n, i, f) == filterList(st, n, i, 1, 0, "Spec", FALSE, f)

walkList(st, n, i, T, f) ==
    CASE T = "Ident" -> walkIdentList(st, n, i, f)
      [] T = "Expr" -> walkExprList(st, n, i, f)
      [] T = "Stmt" -> walkStmtList(st, n, i, f)
      [] T = "Decl" -> walkDeclList(st, n, i, f)
      [] T = "Spec" -> walkSpecList(st, n, i, f)

\* n.Files[name] = r.(*ast.File), r being the result of Walk(f, fn) for the
\* k-th file the range yields
walkFile(r, n, i, k, f) ==
    IF r.st.panic # "none" THEN r.st
    ELSE IF ~TypeAssert(r.st.h, r.ret, "File")
    THEN [r.st EXCEPT !.panic = "interface conversion"]
    ELSE walkFiles([r.st EXCEPT !.h[n].kids[i][r.st.order[k]] = r.ret],
                   n, i, k + 1, f)

\* the Package case: n.Files[name] = Walk(f, fn).(*ast.File) for each file.
\* The files of the map are the entries of the child field i; the range
\* yields each once, in the order st.order (a package is no child of any
\* node, so a walk meets one package at most)
walkFiles(st, n, i, k, f) ==
    IF k > Len(st.order) THEN st
    ELSE walkFile(Walk(st, st.h[n].kids[i][st.order[k]], f), n, i, k, f)

\* a statement of a case: the state after it and whether it left Walk by a
\* bare return
Go(s) == [st |-> s, returned |-> FALSE]

BareReturn(s) == [st |-> s, returned |-> TRUE]

\* the filtering of the list field i of n
WalkListField(st, n, d, i, f) ==
    IF d.mode = "Comments" THEN filterList(st, n, i, 1, 0, d.T, TRUE, f)
    ELSE IF d.mode = "Fields" THEN filterList(st, n, i, 1, 0, d.T, FALSE, f)
    ELSE walkList(st, n, i, d.T, f)

\* the assignment of the filtered list l (the first l.out entries of the
\* array) to the field i of n, and the return when the list is empty
StoreList(l, n, d, i) ==
    LET lset == [l.st EXCEPT !.h[n].kids[i] = SubSeq(@, 1, l.out)]
    IN  IF l.st.panic # "none" THEN Go(l.st)
        ELSE IF d.mode \in {"ListNilReturn", "Fields"} /\ l.out = 0
        THEN BareReturn(lset)
        ELSE Go(lset)

\* the assignment of r, the result of the walk of the single child field i
\* of n, as the statement of mode d.mode does it
StoreChild(r, n, d, i) ==
    LET ok  == TypeAssert(r.st.h, r.ret, d.T)
        set == [r.st EXCEPT !.h[n].kids[i] =
                                IF ok THEN Box(r.ret, d.T) ELSE << >>]
    IN  IF r.st.panic # "none" THEN Go(r.st)
        ELSE CASE d.mode \in {"Must", "MustIf"} ->
                    IF ok THEN Go(set)
                    ELSE Go([r.st EXCEPT !.panic = "interface conversion"])
               [] d.mode = "OkElseReturn" ->
                    IF ok THEN Go(set) ELSE BareReturn(r.st)
               [] d.mode = "NilReturn" ->
                    IF set.h[n].kids[i] = << >> THEN BareReturn(set) ELSE Go(set)
               [] d.mode \in {"Clear", "ClearIf"} -> Go(set)
               [] d.mode = "OkKeep" -> IF ok THEN Go(set) ELSE Go(r.st)
               [] d.mode = "Discard" -> Go(r.st)

\* one child field of n: the state after its statement and whether the
\* statement left Walk by a bare return
WalkField(st, n, d, i, f) ==
    IF d.mode = "Skip" THEN Go(st)
    ELSE IF d.mode = "Files" THEN Go(walkFiles(st, n, i, 1, f))
    ELSE IF d.mode = "Fields" /\ FieldListBreaks(st.h[n].kids[i]) THEN Go(st)
    ELSE IF d.mode \in {"List", "ListNilReturn", "Comments", "Fields"}
    THEN StoreList(WalkListField(st, n, d, i, f), n, d, i)
    ELSE IF d.mode \in {"MustIf", "ClearIf"} /\ st.h[n].kids[i] = << >>
    THEN Go(st)
    ELSE StoreChild(Walk(st, Load(st.h, n, i, d.T), f), n, d, i)

\* after the i-th statement of the case for n, whose outcome is r
NextField(r, n, i, f) ==
    IF r.st.panic # "none" \/ r.returned THEN r
    ELSE WalkFields(r.st, n, i + 1, f)

\* the case of Walk's switch for n, from its i-th child field on
WalkFields(st, n, i, f) ==
    IF i > Len(Slots(st.h[n].kind)) THEN Go(st)
    ELSE NextField(WalkField(st, n, Slots(st.h[n].kind)[i], i, f), n, i, f)

\* the end of Walk(node, fn) after the switch, whose outcome is r
AfterSwitch(r, node, rewritten) ==
    IF r.st.panic # "none" THEN [st |-> r.st, ret |-> NilIface]
    ELSE IF r.returned THEN Return(r.st, node, NilIface)
    ELSE Return([r.st EXCEPT !.calls = Append(@, [n |-> NilIface, of |-> node])],
                node, rewritten)

\* Walk(node, fn) once fn(node), recorded in s1, has returned (rewritten, ok)
Switch(s1, node, rewritten, ok, f) ==
    IF ~Descends(rewritten, ok) THEN Return(s1, node, rewritten)
    ELSE IF s1.h[node].kind \notin KnownKinds
    THEN Panic(s1, "unexpected node type")
    ELSE AfterSwitch(WalkFields(s1, node, 1, f), node, rewritten)

Walk(st, node, f) ==
    IF isNil(node) THEN [st |-> st, ret |-> node]
    ELSE Switch([st EXCEPT !.calls = Append(@, [n |-> node, of |-> node])],
                node, f[node].ret, f[node].descend, f)

----------------------------------------------------------------------------
\* Input trees.  N(kind, kids) is a node with its child fields in the order
\* of Slots(kind), each a sequence of subtrees.
N(kind, kids) == [kind |-> kind, kids |-> kids]

Id == N("Ident", << >>)
Lit == N("BasicLit", << >>)
Cm == N("Comment", << >>)
CG == N("CommentGroup", << <<Cm>> >>)
Emp == N("EmptyStmt", << >>)
Blk == N("BlockStmt", << << >> >>)
FT == N("FuncType", << << >>, << >> >>)
Call == N("CallExpr", << <<Id>>, << >> >>)
FldT == N("Field", << << >>, <<Id>>, << >>, << >>, << >> >>)
FldDoc == N("Field", << << >>, <<Id>>, << >>, <<CG>>, << >> >>)
FL(fields) == N("FieldList", << fields >>)
Imp == N("ImportSpec", << << >>, << >>, <<Lit>>, << >> >>)

Trees ==
    << N("CommentGroup", << <<Cm, Cm, Cm>> >>),
       N("Field", << <<Id>>, <<Id>>, <<Lit>>, <<CG>>, << >> >>),
       N("Field", << << >>, <<Id>>, << >>, << >>, <<CG>> >>),
       FL(<<FldT, FldDoc>>),
       FL(<< >>),
       N("Ellipsis", << <<Id>> >>),
       N("Ellipsis", << << >> >>),
       N("FuncLit", << <<FT>>, <<Blk>> >>),
       N("CompositeLit", << <<Id>>, <<Id, Lit>> >>),
       N("ParenExpr", << <<Call>> >>),
       N("SelectorExpr", << <<Id>>, <<Id>> >>),
       N("IndexExpr", << <<Id>>, <<Lit>> >>),
       N("SliceExpr", << <<Id>>, <<Lit>>, <<Lit>>, <<Lit>> >>),
       N("TypeAssertExpr", << <<Id>>, <<Id>> >>),
       N("CallExpr", << <<Id>>, <<Id, Lit, Id>> >>),
       N("StarExpr", << <<Id>> >>),
       N("UnaryExpr", << <<Id>> >>),
       N("BinaryExpr", << <<Id>>, <<Lit>> >>),
       N("KeyValueExpr", << <<Id>>, <<Lit>> >>),
       N("ArrayType", << <<Lit>>, <<Id>> >>),
       N("ArrayType", << << >>, <<Id>> >>),
       N("StructType", << <<FL(<<FldT>>)>> >>),
       N("FuncType", << <<FL(<< >>)>>, <<FL(<<FldDoc>>)>> >>),
       N("InterfaceType", << <<FL(<<FldT>>)>> >>),
       N("InterfaceType", << << >> >>),
       N("MapType", << <<Id>>, <<Id>> >>),
       N("ChanType", << <<Id>> >>),
       N("DeclStmt", << <<N("GenDecl", << <<Imp>>, << >> >>)>> >>),
       N("LabeledStmt", << <<Id>>, <<Emp>> >>),
       N("ExprStmt", << <<Call>> >>),
       N("SendStmt", << <<Id>>, <<Lit>> >>),
       N("IncDecStmt", << <<Id>> >>),
       N("AssignStmt", << <<Id>>, <<Lit>> >>),
       N("GoStmt", << <<Call>> >>),
       N("DeferStmt", << <<Call>> >>),
       N("ReturnStmt", << <<Id, Lit>> >>),
       N("BranchStmt", << <<Id>> >>),
       N("BlockStmt", << <<N("BlockStmt", << <<N("ExprStmt", << <<Id>> >>), Emp>> >>),
                          Emp>> >>),
       N("IfStmt", << <<Emp>>, <<Id>>, <<Blk>>, <<Blk>> >>),
       N("CaseClause", << <<Id>>, <<Emp>> >>),
       N("SwitchStmt", << <<Emp>>, <<Id>>, <<Blk>> >>),
       N("TypeSwitchStmt", << <<Emp>>, <<Emp>>, <<Blk>> >>),
       N("CommClause", << <<Emp>>, <<Emp>> >>),
       N("SelectStmt", << <<Blk>> >>),
       N("ForStmt", << <<Emp>>, <<Id>>, <<Emp>>, <<Blk>> >>),
       N("RangeStmt", << <<Id>>, <<Id>>, <<Id>>, <<Blk>> >>),
       N("ImportSpec", << <<CG>>, <<Id>>, <<Lit>>, <<CG>> >>),
       N("ValueSpec", << <<CG>>, <<Id>>, <<Id>>, <<Lit>>, << >> >>),
       N("ValueSpec", << << >>, <<Id, Id>>, << >>, << >>, <<CG>> >>),
       N("TypeSpec", << <<Id>>, <<Id>>, <<CG>>, <<CG>> >>),
       N("GenDecl", << <<Imp, Imp>>, <<CG>> >>),
       N("GenDecl", << << >>, <<CG>> >>),
       N("FuncDecl", << << >>, <<FL(<<FldT>>)>>, <<Id>>, <<FT>>, <<Blk>> >>),
       N("FuncDecl", << <<CG>>, << >>, <<Id>>, <<FT>>, << >> >>),
       N("File", << << >>, <<Id>>,
                    <<N("BadDecl", << >>), N("GenDecl", << <<Imp>>, << >> >>)>> >>),
       N("File", << <<CG>>, <<Id>>, << >> >>),
       N("Package", << <<N("File", << << >>, <<Id>>, << >> >>)>> >>),
       N("Package", << <<N("File", << << >>, <<Id>>, << >> >>),
                         N("File", << << >>, <<Id>>, << >> >>)>> >>),
       FL(<<N("Field", << << >>, <<N("StructType", << <<FL(<<FldT>>)>> >>)>>,
                          << >>, << >>, << >> >>), FldT>>),
       N("CallExpr", << <<Id>>,
                        <<N("InterfaceType", << <<FL(<<FldT>>)>> >>), Id>> >>),
       N("ExprStmt", << <<N("IndexListExpr", << >>)>> >>),
       N("BlockStmt", << <<Emp, Emp,
                            N("ExprStmt", << <<N("IndexListExpr", << >>)>> >>)>> >>),
       Id, Lit, Cm, Emp, N("BadExpr", << >>), N("BadStmt", << >>),
       N("BadDecl", << >>) >>

\* the node Walk is called on
Root == <<0>>

RECURSIVE Merge(_)
Merge(fs) ==
    IF fs = {} THEN << >>
    ELSE LET g == CHOOSE g \in fs : TRUE IN g @@ Merge(fs \ {g})

\* the heap holding the tree t at identity p
RECURSIVE Alloc(_, _)
Alloc(t, p) ==
    LET obj == [kind |-> t.kind,
                kids |-> [i \in 1..Len(t.kids) |->
                            [j \in 1..Len(t.kids[i]) |-> p \o <<i, j>>]]]
        subs == UNION {{Alloc(t.kids[i][j], p \o <<i, j>>) :
                            j \in 1..Len(t.kids[i])} : i \in 1..Len(t.kids)}
    IN  (p :> obj) @@ Merge(subs)

Heaps == [s \in 1..Len(Trees) |-> Alloc(Trees[s], Root)]

Heap0(s) == Heaps[s]

\* the nodes of the input tree
NodeSets == [s \in 1..Len(Trees) |-> DOMAIN Heaps[s]]

Nodes(s) == NodeSets[s]

\* what fn may return for the node n: n itself, nil, or a spare node; with
\* either answer to "descend?" (a nil pointer of the type of n is returned
\* without "descend").  Response 1 is "n unchanged, descend".
Response(n, c) ==
    [ret |-> CASE c \in {1, 2} -> n
               [] c \in {3, 4} -> NilIface
               [] c \in {5, 6} -> Same(n)
               [] c \in {7, 9} -> Other(n)
               [] c = 8 -> TypedNil(n),
     descend |-> c \in {1, 3, 5, 7}]

Responses == {2, 3, 4, 5, 6, 7, 8, 9}

\* the orders in which a range over a map of k entries may yield them
Orders(k) ==
    {p \in [1..k -> 1..k] : \A a, b \in 1..k : p[a] = p[b] => a = b}

\* the number of files of the package the walk starts at
NumFiles(s) == IF Trees[s].kind = "Package" THEN Len(Trees[s].kids[1]) ELSE 0

\* the sets of nodes at which fn deviates from response 1
EditSets == [s \in 1..Len(Trees) |->
                {E \in SUBSET NodeSets[s] : Cardinality(E) <= MaxEdits}]

----------------------------------------------------------------------------
Init ==
    /\ sc \in 1..Len(Trees)
    /\ \E E \in EditSets[sc] : \E g \in [E -> Responses] :
          fn = [n \in Nodes(sc) |-> Response(n, IF n \in E THEN g[n] ELSE 1)]
    /\ order \in Orders(NumFiles(sc))
    /\ pc = "start"
    /\ h = Heap0(sc)
    /\ calls = << >>
    /\ rets = << >>
    /\ panic = "none"
    /\ ret = NilIface

\* ret = Walk(root, fn)
CallWalk ==
    /\ pc = "start"
    /\ \E r \in {Walk([h |-> h, calls |-> calls, rets |-> rets, panic |-> panic,
                       order |-> order], Root, fn)} :
          /\ h' = r.st.h
          /\ calls' = r.st.calls
          /\ rets' = r.st.rets
          /\ panic' = r.st.panic
          /\ ret' = r.ret
    /\ pc' = "done"
    /\ UNCHANGED <<sc, fn, order>>

Next == CallWalk

Spec == Init /\ [][Next]_vars

----------------------------------------------------------------------------
\* Vocabulary of the properties

Done == pc = "done"

\* the input tree
H0 == Heap0(sc)

\* fn was called on n
Visited(n) == \E k \in DOMAIN calls : calls[k].n = n

\* Walk(n, fn) returned
Returned(n) == n \in DOMAIN rets

\* Walk(n, fn) returned the removal signal
Removes(n) == Returned(n) /\ rets[n].ret = NilIface

\* the calls fn(nil) made by Walk(n, fn)
Posts(n) == {k \in DOMAIN calls : calls[k].n = NilIface /\ calls[k].of = n}

\* the calls fn(m) for a non-nil m
Pres(n) == {k \in DOMAIN calls : calls[k].n = n}

Parent(c) == SubSeq(c, 1, Len(c) - 2)

FieldOf(c) == c[Len(c) - 1]

IndexOf(c) == c[Len(c)]

\* the child field of its parent that the input node c sits in
SlotOf(c) == Slots(H0[Parent(c)].kind)[FieldOf(c)]

\* m is a descendant of n in the input tree
Below(n, m) == Len(m) > Len(n) /\ SubSeq(m, 1, Len(n)) = n

Range(list) == {list[k] : k \in DOMAIN list}

Inner == Nodes(sc) \ {Root}

\* single child fields that must hold a node: assigned without a nil guard
RequiredModes == {"Must", "OkElseReturn", "NilReturn"}

\* single child fields that may be nil: walked under "if n.X != nil", or
\* (ArrayType.Len) assigned only when the assertion succeeds
OptionalModes == {"MustIf", "ClearIf", "OkKeep"}

\* slice child fields rewritten by a filtering loop
ListModes == {"List", "ListNilReturn", "Fields", "Comments"}

\* the walk of the input tree under the visitor g
WalkRoot(g) ==
    Walk([h |-> H0, calls |-> << >>, rets |-> << >>, panic |-> "none",
          order |-> order], Root, g)

----------------------------------------------------------------------------
\* C1: when the walk of the child in a required single field yields removal,
\* Walk on the parent returns the removal signal (it does not panic) and the
\* parent's later fields are not walked.
C1_RequiredChildRemovalCascades ==
    Done =>
        \A c \in Inner :
            (SlotOf(c).mode \in RequiredModes /\ Removes(c)) =>
                /\ Removes(Parent(c))
                /\ \A d \in Inner :
                      (Parent(d) = Parent(c) /\ FieldOf(d) > FieldOf(c))
                          => ~Visited(d)

\* C2 as stated: when fn(N) returns the removal signal with descend = true,
\* Walk returns the removal signal without touching N's children: fn is
\* called on no descendant of N, no field of N is rewritten, fn(nil) is not
\* called for N.
C2_RemovalSkipsChildren ==
    Done =>
        \A n \in Nodes(sc) :
            (Visited(n) /\ fn[n] = Response(n, 3)) =>
                /\ \A m \in Nodes(sc) : Below(n, m) => ~Visited(m)
                /\ Posts(n) = {}
                /\ Returned(n) =>
                      rets[n].ret = NilIface /\ rets[n].kids = H0[n].kids

\* C2 amended: when fn(N) returns the removal signal with descend = true,
\* Walk(N) returns the removal signal whenever it returns, and it walks N
\* exactly as when fn(N) returns N itself with descend = true: the same calls
\* of fn (children and fn(nil) included), the same rewrites of the heap, the
\* same panic.
C2_RemovalStillWalksChildren ==
    Done =>
        /\ \A n \in Nodes(sc) :
              (Visited(n) /\ fn[n] = Response(n, 3) /\ Returned(n))
                  => rets[n].ret = NilIface
        /\ fn[Root] = Response(Root, 3) =>
              LET alt == WalkRoot([fn EXCEPT ![Root] = Response(Root, 1)])
              IN  /\ h = alt.st.h
                  /\ calls = alt.st.calls
                  /\ panic = alt.st.panic
                  /\ panic = "none" =>
                        /\ ret = NilIface
                        /\ rets[Root].kids = alt.st.rets[Root].kids
                        /\ alt.ret \in {Root, NilIface}

\* C2 witness: the root is removed by fn with descend = true, and still a
\* child was visited, a field was rewritten and fn(nil) was called for it.
C2_Witness ==
    /\ Done
    /\ panic = "none"
    /\ fn[Root] = Response(Root, 3)
    /\ ret = NilIface
    /\ \E c \in Inner : Parent(c) = Root /\ Visited(c)
    /\ Posts(Root) # {}
    /\ h[Root].kids # H0[Root].kids

\* C3: a node of the wrong family returned for a child (single field or list
\* element) makes the walk panic.
C3_KindMismatchPanics ==
    Done =>
        \A c \in Inner :
            (Returned(c) /\ rets[c].ret = Other(c)) => panic # "none"

\* C4: when the walk of the child in a populated optional single field yields
\* removal, the parent's Walk goes on (no panic), the field is nil after it,
\* the parent is not removed for it, and the parent's next field is walked.
C4_OptionalChildRemovalClears ==
    Done =>
        \A c \in Inner :
            (SlotOf(c).mode \in OptionalModes /\ Removes(c)) =>
                LET p == Parent(c)
                    i == FieldOf(c)
                IN  /\ Returned(p)
                    /\ rets[p].kids[i] = << >>
                    /\ \A d \in Inner :
                          (Parent(d) = p /\ FieldOf(d) = i + 1
                             /\ SlotOf(d).mode # "Skip") => Visited(d)

\* the node n was walked into (fn(n) returned a node and descend = true) and
\* its Walk returned
Walked(n) ==
    Visited(n) /\ fn[n].descend /\ fn[n].ret # NilIface /\ Returned(n)

\* some slice field of n rewritten by a walkTList call is empty when Walk(n)
\* returns
SomeListEmptied(n) ==
    \E i \in DOMAIN rets[n].kids :
        Slots(H0[n].kind)[i].mode = "List" /\ rets[n].kids[i] = << >>

\* C5, the part the code agrees with: a generic declaration left without
\* specs is removed; a call whose function survived, a block, an assignment
\* or a return statement left with an empty list is retained.
C5_Common(n) ==
    /\ (H0[n].kind = "GenDecl" /\ rets[n].kids[1] = << >>)
          => rets[n].ret = NilIface
    /\ (H0[n].kind \in {"BlockStmt", "AssignStmt", "ReturnStmt"}
          /\ SomeListEmptied(n)) => rets[n].ret = fn[n].ret /\ Posts(n) # {}
    /\ (H0[n].kind = "CallExpr" /\ rets[n].kids[1] # << >>
          /\ SomeListEmptied(n)) => rets[n].ret = fn[n].ret /\ Posts(n) # {}

\* C5 as stated: a field list or generic declaration whose rewritten list is
\* empty is removed; an emptied argument list, statement body or
\* assignment/return expression list leaves its owner retained.
C5_EmptyListCascades ==
    Done =>
        \A n \in Nodes(sc) :
            Walked(n) =>
                /\ C5_Common(n)
                /\ (H0[n].kind = "FieldList" /\ rets[n].kids[1] = << >>)
                      => rets[n].ret = NilIface

\* C5 amended: as stated, except that a field list whose list is empty when
\* it is walked is retained (fn(nil) is called for it and Walk returns what
\* fn returned); only a field list that had entries and lost them all is
\* removed.
C5_EmptiedListCascades ==
    Done =>
        \A n \in Nodes(sc) :
            Walked(n) =>
                /\ C5_Common(n)
                /\ (H0[n].kind = "FieldList" /\ H0[n].kids[1] # << >>
                      /\ rets[n].kids[1] = << >>) => rets[n].ret = NilIface
                /\ (H0[n].kind = "FieldList" /\ H0[n].kids[1] = << >>)
                      => rets[n].ret = fn[n].ret /\ Posts(n) # {}

\* C5 witness: in one walk, a field list that was empty is retained and a
\* field list that lost its only field is removed.
C5_Witness ==
    /\ Done
    /\ panic = "none"
    /\ \E n \in Nodes(sc) :
          /\ Walked(n) /\ H0[n].kind = "FieldList"
          /\ H0[n].kids[1] = << >> /\ rets[n].ret = n
    /\ \E n \in Nodes(sc) :
          /\ Walked(n) /\ H0[n].kind = "FieldList"
          /\ H0[n].kids[1] # << >> /\ rets[n].kids[1] = << >>
          /\ rets[n].ret = NilIface

\* C6: when fn returns for the child c a different node of the type the
\* field expects, the field (or list position) holds that node, not c, when
\* Walk on the parent has returned.
C6_ReplacementIsStored ==
    Done =>
        \A c \in Inner :
            (Returned(c) /\ rets[c].ret = Same(c) /\ Returned(Parent(c))) =>
                LET held == Range(rets[Parent(c)].kids[FieldOf(c)])
                IN  Same(c) \in held /\ c \notin held

\* C7: in a walk that returns, every call fn(n) that answers descend = true
\* is matched by exactly one later fn(nil) of n, made after the calls for
\* n's descendants; so the descend calls and the fn(nil) calls balance.
C7_PostCallMatchesEveryDescend ==
    (Done /\ panic = "none") =>
        /\ \A n \in Nodes(sc) :
              (Visited(n) /\ fn[n].descend) =>
                  /\ Cardinality(Posts(n)) = 1
                  /\ \A k \in Posts(n) : \A m \in Nodes(sc) : \A j \in Pres(m) :
                        (m = n \/ Below(n, m)) => j < k
        /\ Cardinality({k \in DOMAIN calls :
                            calls[k].n # NilIface /\ fn[calls[k].n].descend})
              = Cardinality({k \in DOMAIN calls : calls[k].n = NilIface})

\* C8: after a walk that returns, every comment group that was attached to a
\* removed node or to one of its descendants (a comment group below the
\* removed node in the input tree) holds no comments.
C8_RemovedSubtreeCommentsCleared ==
    (Done /\ panic = "none") =>
        \A r \in Inner :
            Removes(r) =>
                \A g \in Nodes(sc) :
                    (H0[g].kind = "CommentGroup" /\ Below(r, g))
                        => h[g].kids[1] = << >>

\* the results of the walks of the elements list[k], list[k + 1], ... that
\* did not yield removal, in order
RECURSIVE Survivors(_, _)
Survivors(list, k) ==
    IF k > Len(list) THEN << >>
    ELSE IF rets[list[k]].ret = NilIface THEN Survivors(list, k + 1)
    ELSE << rets[list[k]].ret >> \o Survivors(list, k + 1)

\* C9: after the walk of a list field, the list holds exactly the results of
\* the element walks that did not yield removal, in the order of the
\* elements, and no nil entry.
C9_ListKeepsSurvivorsInOrder ==
    (Done /\ panic = "none") =>
        \A n \in Nodes(sc) : \A i \in DOMAIN H0[n].kids :
            (/\ Returned(n)
             /\ Slots(H0[n].kind)[i].mode \in ListModes
             /\ H0[n].kids[i] # << >>
             /\ \A x \in Range(H0[n].kids[i]) : Returned(x)) =>
                /\ rets[n].kids[i] = Survivors(H0[n].kids[i], 1)
                /\ \A e \in Range(rets[n].kids[i]) : ~isNil(e)

\* the element after c in the list field c sits in
NextInList(c) ==
    IF IndexOf(c) < Len(H0[Parent(c)].kids[FieldOf(c)])
    THEN {Parent(c) \o <<FieldOf(c), IndexOf(c) + 1>>}
    ELSE {}

\* the input node walked next after c by the Walk of c's parent, when c's
\* own result is kept: the next element of c's list, else the first node of
\* the parent's next field
NextSibling(c) ==
    LET p == Parent(c)
        i == FieldOf(c)
    IN  IF NextInList(c) # {} THEN NextInList(c)
        ELSE IF i < Len(H0[p].kids) /\ H0[p].kids[i + 1] # << >>
                  /\ Slots(H0[p].kind)[i + 1].mode # "Skip"
        THEN {p \o <<i + 1, 1>>}
        ELSE {}

\* C10: when fn(N) answers descend = false, Walk(N) returns what fn returned,
\* fn is called on no descendant of N, N's fields are left as they were, no
\* fn(nil) is made for N, and the walk goes on with the following siblings
\* of N and of every ancestor of N whose Walk returned: the next element of
\* its list is visited, and after the last element (or a single field) the
\* first node of the parent's next field.  Only where the walk is specified
\* to stop is no sibling required: after a node of the wrong family, and, for
\* the parent's next field, after a removal that cascades to the parent (in
\* a required field or from a removal-triggering list).
C10_EarlyStop ==
    Done =>
        \A n \in Nodes(sc) :
            (Visited(n) /\ ~fn[n].descend) =>
                /\ Returned(n)
                /\ rets[n].ret = fn[n].ret
                /\ rets[n].kids = H0[n].kids
                /\ \A m \in Nodes(sc) : Below(n, m) => ~Visited(m)
                /\ Posts(n) = {}
                /\ \A a \in Inner :
                      (/\ a = n \/ Below(a, n)
                       /\ Returned(a)
                       /\ rets[a].ret # Other(a)) =>
                          /\ \A m \in NextInList(a) : Visited(m)
                          /\ ~(/\ Removes(a)
                               /\ SlotOf(a).mode \in
                                     RequiredModes \cup {"ListNilReturn", "Fields"})
                                => \A m \in NextSibling(a) : Visited(m)

====
